---- MODULE Spec2Model ----
(***************************************************************************)
(* The translation pipeline of the Markdown-to-HTML converter:             *)
(*   - the route handler POST of /api/translate with its orchestrator      *)
(*     translateHtmlContent / fallbackTranslation / mockTranslation,       *)
(*   - the page's performTranslation and handleTranslationError.           *)
(*                                                                         *)
(* JavaScript values are records tagged with their type, so that           *)
(* `undefined`, the empty string and a non-empty string stay distinct.     *)
(* A string is a sequence: HTML content is a sequence of characters, an    *)
(* error message a sequence of phrases; String.includes is membership of   *)
(* a phrase.                                                               *)
(*                                                                         *)
(* An async function runs atomically between two awaits of a network call; *)
(* each action below is one such stretch.  A provider exchange ends either *)
(* in a transport exception (the fetch, or the reading of the body,        *)
(* rejects) or in a complete HTTP response (status and body).              *)
(***************************************************************************)
EXTENDS Integers, Sequences, FiniteSets, TLC

VARIABLES
    pc,               \* position of the request being processed
    origin,           \* who started it: "page", "direct" (any HTTP client), "orchestrator"
    req,              \* the request: content, direction, apiKeys
    invoked,          \* the tiers invoked for the request, in order
    netCalls,         \* the outbound network calls made for the request, in order
    primaryOutcome,   \* what the OpenAI exchange ended in
    secondaryOutcome, \* what the Google Translate exchange ended in
    result,           \* how translateHtmlContent settled: a return value or a thrown Error
    response,         \* the HTTP response of /api/translate
    errorModal,       \* the page's error modal (showErrorModal)
    returned,         \* what performTranslation returned to its caller
    fetchError,       \* history: the error PageFetchFails handed to the catch
    \* the state of the page component
    mounted,          \* the effect that loads the saved keys has run
    htmlContent,
    translatedContent,
    previewTranslated,
    isLoading,
    apiKeys,
    showSettings,
    localStorage,     \* the item "translation-api-keys"
    conversions,      \* uploads whose convertMarkdownToHtml is pending
    urlFetches,       \* handleUrlFetch calls whose fetch is pending
    \* history
    translatedFrom,   \* the content translatedContent was produced from
    keysAtOpen        \* apiKeys when the settings dialog was last opened

pageVars == <<mounted, htmlContent, translatedContent, previewTranslated, isLoading,
              apiKeys, showSettings, localStorage, conversions, urlFetches,
              translatedFrom, keysAtOpen>>

vars == <<pc, origin, req, invoked, netCalls, primaryOutcome, secondaryOutcome,
          result, response, errorModal, returned, fetchError, pageVars>>

--------------------------------------------------------------------------
(* JavaScript values *)

Undefined == [type |-> "undefined"]
Null == [type |-> "null"]
Str(s) == [type |-> "string", chars |-> s]
None == [kind |-> "none"]

\* !v
Falsy(v) == v.type \in {"undefined", "null"} \/ (v.type = "string" /\ v.chars = <<>>)

\* message.includes(phrase)
Includes(message, phrase) == \E i \in 1..Len(message) : message[i] = phrase

\* the characters \s and trim take for whitespace
Whitespace == {" ", "\n", "\t"}

\* String.prototype.trim
RECURSIVE TrimLeft(_)
TrimLeft(s) == IF s # <<>> /\ Head(s) \in Whitespace THEN TrimLeft(Tail(s)) ELSE s
RECURSIVE TrimRight(_)
TrimRight(s) ==
    IF s # <<>> /\ s[Len(s)] \in Whitespace THEN TrimRight(SubSeq(s, 1, Len(s) - 1)) ELSE s
Trim(s) == TrimRight(TrimLeft(s))

--------------------------------------------------------------------------
(* Inputs *)

MarkerEN == <<"[", "E", "N", "]">>
MarkerJP == <<"[", "J", "P", "]">>

\* HTML contents a request carries
Contents == { <<"E">>, <<"E", "[", "E", "N", "]", " ", "J">> }
\* what the page may hold in htmlContent when the toggle is enabled (line 509: non-empty)
PageContents == Contents \cup { <<" ">> }

Directions == {"ja-to-en", "en-to-ja"}

OpenAIKeys == { Str(<<"sk">>) }
GoogleKeys == { Str(<<"AIza">>) }
\* the page's apiKeys state: both fields are strings (line 59)
PageApiKeys ==
    { [type |-> "object", openai |-> o, googleTranslate |-> g] :
        o \in OpenAIKeys \cup {Str(<<>>)}, g \in GoogleKeys \cup {Str(<<>>)} }
\* what any HTTP client may put in the body: fields may also be missing
ApiKeysValues ==
    { [type |-> "object", openai |-> o, googleTranslate |-> g] :
        o \in OpenAIKeys \cup {Str(<<>>), Undefined},
        g \in GoogleKeys \cup {Str(<<>>), Undefined} } \cup {Undefined}

Requests ==
    { [content |-> c, direction |-> d, apiKeys |-> k] :
        c \in {Str(x) : x \in Contents} \cup {Str(<<>>), Undefined},
        d \in Directions, k \in ApiKeysValues }

\* a request whose body request.json() cannot parse
UnparsableRequest == [type |-> "unparsable"]

\* texts a provider may answer with
Translations == { <<"T">>, <<"U">> }
\* messages of the exceptions the runtime raises on a failed exchange
ExcMessages == { <<"fetch failed">> }
\* error.message fields of upstream error bodies
UpstreamMessages == { <<"quota exceeded">> }
UpstreamStatuses == {401, 429, 500}

\* the body of a non-2xx answer: not JSON, JSON without error.message, JSON with it
ErrorBodies ==
    { [json |-> FALSE, message |-> Undefined], [json |-> TRUE, message |-> Undefined] }
    \cup { [json |-> TRUE, message |-> Str(m)] : m \in UpstreamMessages }

\* the body of a 2xx answer of OpenAI: data.choices[0].message.content
OpenAIBodies ==
    { [shape |-> "notjson", content |-> Undefined],
      [shape |-> "nochoices", content |-> Undefined],
      [shape |-> "emptychoices", content |-> Undefined],
      [shape |-> "choice", content |-> Undefined],
      [shape |-> "choice", content |-> Str(<<>>)] }
    \cup { [shape |-> "choice", content |-> Str(t)] : t \in Translations }

\* the body of a 2xx answer of Google: data.data.translations[0].translatedText
GoogleBodies ==
    { [shape |-> "notjson", translatedText |-> Undefined],
      [shape |-> "notranslations", translatedText |-> Undefined],
      [shape |-> "translation", translatedText |-> Undefined],
      [shape |-> "translation", translatedText |-> Str(<<>>)] }
    \cup { [shape |-> "translation", translatedText |-> Str(t)] : t \in Translations }

Outcomes(okBodies) ==
    { [kind |-> "threw", message |-> m, status |-> 0, body |-> None] : m \in ExcMessages }
    \cup { [kind |-> "http", message |-> <<>>, status |-> s, body |-> b] :
             s \in UpstreamStatuses, b \in ErrorBodies }
    \cup { [kind |-> "ok", message |-> <<>>, status |-> 200, body |-> b] : b \in okBodies }

--------------------------------------------------------------------------
(* Settled promises *)

Return(v) == [kind |-> "return", value |-> v, message |-> <<>>]
Throw(m) == [kind |-> "throw", value |-> Undefined, message |-> m]

--------------------------------------------------------------------------
(* src/unnamed/part_000: the route handler of /api/translate *)

\* htmlContent.replace(/<marker>\s*/g, ""): scanning from position i, every match of
\* the marker is dropped together with the whitespace that follows it
RECURSIVE SkipWhitespace(_, _)
SkipWhitespace(s, i) ==
    IF i <= Len(s) /\ s[i] \in Whitespace THEN SkipWhitespace(s, i + 1) ELSE i

MatchesAt(s, i, marker) ==
    /\ i + Len(marker) - 1 <= Len(s)
    /\ SubSeq(s, i, i + Len(marker) - 1) = marker

RECURSIVE ReplaceFrom(_, _, _)
ReplaceFrom(s, i, marker) ==
    IF i > Len(s) THEN <<>>
    ELSE IF MatchesAt(s, i, marker)
         THEN ReplaceFrom(s, SkipWhitespace(s, i + Len(marker)), marker)
         ELSE <<s[i]>> \o ReplaceFrom(s, i + 1, marker)

ReplaceAll(s, marker) == ReplaceFrom(s, 1, marker)

\* a slip: the second replace is forgotten
mockTranslationOnlyEN(html, direction) ==
    ReplaceAll(html, MarkerEN)

mockTranslation(html, direction) ==
    ReplaceAll(ReplaceAll(html, MarkerEN), MarkerJP)

\* a slip: the last fallback gives up instead of returning the content
IdentityResultThrows(html, direction) ==
    Throw(<<"Translation failed">>)

\* `return mockTranslation(htmlContent, direction)`: the Identity tier
IdentityResult(html, direction) ==
    Return(Str(mockTranslation(html, direction)))

\* a slip: the error body is parsed outside the try, so a body that is not JSON
\* replaces the error with the parser's
ApiErrorMessageParsedOutsideTry(api, status, body) ==
    IF body.json
    THEN <<api, " (", ToString(status), ")">>
             \o (IF ~Falsy(body.message) THEN <<": ">> \o body.message.chars ELSE <<>>)
    ELSE <<"Unexpected token in JSON">>

\* the message built for a non-2xx answer: `<api> error (<status>)`, then
\* `: <error.message>` when the body is JSON and carries one
ApiErrorMessage(api, status, body) ==
    <<api, " (", ToString(status), ")">>
        \o (IF body.json /\ ~Falsy(body.message) THEN <<": ">> \o body.message.chars ELSE <<>>)

\* a slip: the payload is read from a field the answer does not have
OpenAIPayloadWrongField(body) == Undefined

\* data.choices[0]?.message?.content
OpenAIPayload(body) == body.content

\* the try block of translateHtmlContent once the fetch has settled
OpenAITry(o) ==
    IF o.kind = "threw" THEN Throw(o.message)
    ELSE IF o.kind = "http" THEN Throw(ApiErrorMessage("OpenAI API error", o.status, o.body))
    ELSE IF o.body.shape = "notjson" THEN Throw(<<"Unexpected token in JSON">>)
    ELSE IF o.body.shape = "nochoices"
         THEN Throw(<<"Cannot read properties of undefined">>)
    ELSE IF Falsy(OpenAIPayload(o.body))
         THEN Throw(<<"No translation content received from OpenAI">>)
    ELSE Return(OpenAIPayload(o.body))

\* a slip: the payload is read from a field the answer does not have
GooglePayloadWrongField(body) == Undefined

\* data.data.translations[0].translatedText
GooglePayload(body) == body.translatedText

\* the try block of fallbackTranslation once the fetch has settled
GoogleTry(o) ==
    IF o.kind = "threw" THEN Throw(o.message)
    ELSE IF o.kind = "http"
         THEN Throw(ApiErrorMessage("Google Translate API error", o.status, o.body))
    ELSE IF o.body.shape = "notjson" THEN Throw(<<"Unexpected token in JSON">>)
    ELSE IF o.body.shape = "notranslations"
         THEN Throw(<<"Cannot read properties of undefined">>)
    ELSE Return(GooglePayload(o.body))

\* slips: the catch throws every error again; the catch looks for the other API's prefix
OpenAIRethrownAlways(message) == TRUE
GoogleRethrownWrongPrefix(message) == Includes(message, "OpenAI API error")

\* the catch blocks: which errors are thrown again
OpenAIRethrown(message) == Includes(message, "OpenAI API error")
GoogleRethrown(message) == Includes(message, "Google Translate API error")

\* slips: only a missing content is refused; only a missing apiKeys object is refused
ContentRequiredOnlyUndefined(content) == content.type = "undefined"
ApiKeyRequiredOnlyObject(keys) == Falsy(keys)

\* the validation of POST
ContentRequired(content) == Falsy(content)
ApiKeyRequired(keys) ==
    Falsy(keys) \/ (Falsy(keys.openai) /\ Falsy(keys.googleTranslate))

\* NextResponse.json(body, {status}): the body is JSON and has no `message` field
JsonResponse(status, error, type, translated) ==
    [status |-> status, json |-> TRUE, error |-> error, message |-> Undefined,
     type |-> type, translatedContent |-> translated]

ContentRequiredResponse ==
    JsonResponse(400, Str(<<"Content is required">>), Undefined, Undefined)
ApiKeyRequiredResponse ==
    JsonResponse(401, Str(<<"API Key is required. Please set your OpenAI or Google Translate API Key in settings.">>),
                 Undefined, Undefined)

\* a slip: a failure is answered as a bad request
ResponseOfBadRequest(res) ==
    IF res.kind = "return" THEN JsonResponse(200, Undefined, Undefined, res.value)
    ELSE JsonResponse(400, Str(res.message), Str(<<"translation_error">>), Undefined)

\* what POST answers once translateHtmlContent has settled: its try and its catch
\* (every value thrown on these paths is an Error)
ResponseOf(res) ==
    IF res.kind = "return" THEN JsonResponse(200, Undefined, Undefined, res.value)
    ELSE JsonResponse(500, Str(res.message), Str(<<"translation_error">>), Undefined)

\* translateHtmlContent settles with res; when it was called by POST, POST answers
Settle(res) ==
    /\ result' = res
    /\ IF origin = "orchestrator"
       THEN pc' = "done" /\ response' = response
       ELSE pc' = "responded" /\ response' = ResponseOf(res)

\* fallbackTranslation up to its await
fallbackTranslation ==
    IF Falsy(req.apiKeys.googleTranslate)
    THEN /\ invoked' = Append(invoked, "Identity")
         /\ Settle(IdentityResult(req.content.chars, req.direction))
         /\ UNCHANGED netCalls
    ELSE /\ invoked' = Append(invoked, "Secondary")
         /\ netCalls' = Append(netCalls, "translation.googleapis.com")
         /\ pc' = "awaitSecondary"
         /\ UNCHANGED <<result, response>>

\* a slip: both providers are called at once instead of one after the other
translateHtmlContentInParallel ==
    IF Falsy(req.apiKeys.openai)
    THEN fallbackTranslation
    ELSE /\ invoked' = invoked \o <<"Primary", "Secondary">>
         /\ netCalls' = netCalls \o <<"api.openai.com", "translation.googleapis.com">>
         /\ pc' = "awaitPrimary"
         /\ UNCHANGED <<result, response>>

\* translateHtmlContent up to its await
translateHtmlContent ==
    IF Falsy(req.apiKeys.openai)
    THEN fallbackTranslation
    ELSE /\ invoked' = Append(invoked, "Primary")
         /\ netCalls' = Append(netCalls, "api.openai.com")
         /\ pc' = "awaitPrimary"
         /\ UNCHANGED <<result, response>>

\* POST up to the first await of a provider, or to its answer
POST ==
    /\ pc = "inflight"
    /\ IF req = UnparsableRequest
       THEN /\ response' = ResponseOf(Throw(<<"Unexpected token in JSON">>))
            /\ pc' = "responded"
            /\ UNCHANGED <<invoked, netCalls, result>>
       ELSE IF ContentRequired(req.content)
       THEN /\ response' = ContentRequiredResponse
            /\ pc' = "responded"
            /\ UNCHANGED <<invoked, netCalls, result>>
       ELSE IF ApiKeyRequired(req.apiKeys)
       THEN /\ response' = ApiKeyRequiredResponse
            /\ pc' = "responded"
            /\ UNCHANGED <<invoked, netCalls, result>>
       ELSE translateHtmlContent
    /\ UNCHANGED <<origin, req, primaryOutcome, secondaryOutcome, errorModal, returned,
                   fetchError, pageVars>>

\* translateHtmlContent resumes after the OpenAI fetch
OpenAIResponds ==
    /\ pc = "awaitPrimary"
    /\ \E o \in Outcomes(OpenAIBodies) :
         /\ primaryOutcome' = o
         /\ LET t == OpenAITry(o)
            IN IF t.kind = "return"
               THEN Settle(t) /\ UNCHANGED <<invoked, netCalls>>
               ELSE IF OpenAIRethrown(t.message)
               THEN Settle(t) /\ UNCHANGED <<invoked, netCalls>>
               ELSE fallbackTranslation
    /\ UNCHANGED <<origin, req, secondaryOutcome, errorModal, returned, fetchError,
                   pageVars>>

\* fallbackTranslation resumes after the Google Translate fetch
GoogleResponds ==
    /\ pc = "awaitSecondary"
    /\ \E o \in Outcomes(GoogleBodies) :
         /\ secondaryOutcome' = o
         /\ LET t == GoogleTry(o)
            IN IF t.kind = "return"
               THEN Settle(t) /\ UNCHANGED invoked
               ELSE IF GoogleRethrown(t.message)
               THEN Settle(t) /\ UNCHANGED invoked
               ELSE /\ invoked' = Append(invoked, "Identity")
                    /\ Settle(IdentityResult(req.content.chars, req.direction))
    /\ UNCHANGED <<origin, req, netCalls, primaryOutcome, errorModal, returned,
                   fetchError, pageVars>>

--------------------------------------------------------------------------
(* src/app/api/fetch-markdown/route.ts: the page *)

\* a slip: the case of 504 is missing from the switch
StatusTitleWithout504(status) ==
    CASE status = 400 -> <<"Request error (400)">>
      [] status = 401 -> <<"Authentication error (401)">>
      [] status = 403 -> <<"Access denied (403)">>
      [] status = 429 -> <<"Rate limit error (429)">>
      [] status = 500 -> <<"Server error (500)">>
      [] status = 502 -> <<"Gateway error (502)">>
      [] status = 503 -> <<"Service unavailable (503)">>
      [] OTHER -> <<"HTTP error (", ToString(status), ")">>

\* errorTitle for a response status (the switch of handleTranslationError)
StatusTitle(status) ==
    CASE status = 400 -> <<"Request error (400)">>
      [] status = 401 -> <<"Authentication error (401)">>
      [] status = 403 -> <<"Access denied (403)">>
      [] status = 429 -> <<"Rate limit error (429)">>
      [] status = 500 -> <<"Server error (500)">>
      [] status = 502 -> <<"Gateway error (502)">>
      [] status = 503 -> <<"Service unavailable (503)">>
      [] status = 504 -> <<"Timeout error (504)">>
      [] OTHER -> <<"HTTP error (", ToString(status), ")">>

\* errorMessage for a response status, before the details are appended
StatusGuidance(status) ==
    CASE status = 400 -> <<"The translation request is invalid. Check the content.">>
      [] status = 401 -> <<"The API key is invalid or expired. Check it in the settings.">>
      [] status = 403 -> <<"The API key lacks permission. Check its permissions.">>
      [] status = 429 -> <<"The API usage limit is reached: retry later, check usage, consider upgrading the plan.">>
      [] status = 500 -> <<"The translation service had a server error. Retry later.">>
      [] status = 502 -> <<"Communication with the translation service failed. Retry later.">>
      [] status = 503 -> <<"The translation service is temporarily unavailable. Retry later.">>
      [] status = 504 -> <<"The translation timed out. Split the content into smaller sections.">>
      [] OTHER -> <<"The translation API returned an error. Status code: ", ToString(status)>>

\* messages of the errors the browser raises when fetch("/api/translate") rejects:
\* every message of up to MaxMessageLen phrases
MaxMessageLen == 2
Phrases == {"fetch", "network", "timeout", "failed"}
FetchErrorMessages == UNION { [1..n -> Phrases] : n \in 0..MaxMessageLen }

\* a slip: only the `message` field of the body is read
ErrorDetailsOnlyMessage(rsp) ==
    IF ~rsp.json THEN <<>>
    ELSE IF ~Falsy(rsp.message) THEN rsp.message.chars
    ELSE <<>>

\* errorData.error || errorData.message || "", and "" when the body is not JSON
ErrorDetails(rsp) ==
    IF ~rsp.json THEN <<>>
    ELSE IF ~Falsy(rsp.error) THEN rsp.error.chars
    ELSE IF ~Falsy(rsp.message) THEN rsp.message.chars
    ELSE <<>>

\* a slip: only one of the two network words is looked for
NetworkIndicatedOnlyFetch(message) == Includes(message, "fetch")

\* the conditions of the branches for an error without a Response
NetworkIndicated(message) == Includes(message, "fetch") \/ Includes(message, "network")
TimeoutIndicated(message) == Includes(message, "timeout")

\* handleTranslationError: the title and message it hands to showErrorModal.
\* rsp is the Response it was given, or None when it was given the error alone.
handleTranslationError(error, rsp) ==
    IF rsp # None
    THEN LET errorDetails == ErrorDetails(rsp)
         IN [show |-> TRUE,
             title |-> StatusTitle(rsp.status),
             message |-> StatusGuidance(rsp.status)
                 \o (IF errorDetails # <<>> THEN <<"\n\nDetails: ">> \o errorDetails
                     ELSE <<>>)]
    ELSE IF NetworkIndicated(error)
    THEN [show |-> TRUE, title |-> <<"Network error">>,
          message |-> <<"Check the internet connection: Wi-Fi, proxy, firewall.">>]
    ELSE IF TimeoutIndicated(error)
    THEN [show |-> TRUE, title |-> <<"Timeout error">>,
          message |-> <<"The translation timed out. Reduce the content size or retry later.">>]
    ELSE [show |-> TRUE, title |-> <<"Translation error">>,
          message |-> <<"Error details: ">> \o error]

NoContentModal ==
    [show |-> TRUE, title |-> <<"Translation error">>,
     message |-> <<"There is no HTML content to translate.">>]
ApiKeyUnsetModal ==
    [show |-> TRUE, title |-> <<"API Key not set">>,
     message |-> <<"An API Key is needed to translate. Set an OpenAI or Google Translate API Key in the settings.">>]
NoModal == [show |-> FALSE, title |-> <<>>, message |-> <<>>]

\* a new request starts: nothing is recorded for it yet
Fresh ==
    /\ invoked' = <<>>
    /\ netCalls' = <<>>
    /\ primaryOutcome' = None
    /\ secondaryOutcome' = None
    /\ result' = None
    /\ response' = None
    /\ returned' = None
    /\ fetchError' = None

\* performTranslation up to its await of fetch("/api/translate"), called with the
\* page's htmlContent, translationDirection and apiKeys
performTranslationWith(content, keys) ==
    /\ req' = [content |-> Str(content), direction |-> "ja-to-en", apiKeys |-> keys]
    /\ origin' = "page"
    /\ Fresh
    /\ IF Trim(content) = <<>>
       THEN errorModal' = NoContentModal /\ pc' = "idle"
       ELSE IF Falsy(keys.openai) /\ Falsy(keys.googleTranslate)
       THEN errorModal' = ApiKeyUnsetModal /\ pc' = "idle"
       ELSE errorModal' = errorModal /\ pc' = "sending"

\* performTranslation called in any state of the page that lets the toggle call it
performTranslation ==
    /\ pc = "idle"
    /\ \E content \in PageContents, keys \in PageApiKeys :
         performTranslationWith(content, keys)
    /\ UNCHANGED pageVars

\* the page's fetch("/api/translate") goes out and reaches the server
PageFetch ==
    /\ pc = "sending"
    /\ netCalls' = Append(netCalls, "/api/translate")
    /\ pc' = "inflight"
    /\ UNCHANGED <<origin, req, invoked, primaryOutcome, secondaryOutcome, result,
                   response, errorModal, returned, fetchError, pageVars>>

\* the page's fetch("/api/translate") rejects: the catch of performTranslation
performTranslationCatches(error) ==
    /\ pc = "sending"
    /\ errorModal' = handleTranslationError(error, None)
    /\ netCalls' = Append(netCalls, "/api/translate")
    /\ returned' = Null
    /\ pc' = "idle"
    /\ UNCHANGED <<origin, req, invoked, primaryOutcome, secondaryOutcome, result,
                   response>>

PageFetchFails ==
    /\ \E error \in FetchErrorMessages :
         /\ performTranslationCatches(error)
         /\ fetchError' = Str(error)
    /\ UNCHANGED pageVars

\* performTranslation resumes with the response of /api/translate
performTranslationResumes ==
    /\ pc = "responded"
    /\ origin = "page"
    /\ IF response.status \notin 200..299
       THEN /\ errorModal' = handleTranslationError(<<"Translation failed">>, response)
            /\ returned' = Null
       ELSE /\ returned' = response.translatedContent
            /\ errorModal' = errorModal
    /\ pc' = "idle"
    /\ UNCHANGED <<origin, req, invoked, netCalls, primaryOutcome, secondaryOutcome,
                   result, response, fetchError>>

PageReceives == performTranslationResumes /\ UNCHANGED pageVars

\* any other HTTP client posts a request to /api/translate
DirectRequest ==
    /\ pc = "idle"
    /\ \E r \in Requests \cup {UnparsableRequest} : req' = r
    /\ origin' = "direct"
    /\ Fresh
    /\ pc' = "inflight"
    /\ UNCHANGED <<errorModal, pageVars>>

\* and receives the answer
DirectReceives ==
    /\ pc = "responded"
    /\ origin = "direct"
    /\ pc' = "idle"
    /\ UNCHANGED <<origin, req, invoked, netCalls, primaryOutcome, secondaryOutcome,
                   result, response, errorModal, returned, fetchError, pageVars>>

--------------------------------------------------------------------------
(* The page and the route *)

NoRequest == [content |-> Undefined, direction |-> "ja-to-en", apiKeys |-> Undefined]

NoKeys == [type |-> "object", openai |-> Str(<<>>), googleTranslate |-> Str(<<>>)]

\* the useState initial values of the component, in a browser with nothing stored
PageInit ==
    /\ mounted = FALSE
    /\ htmlContent = <<>>
    /\ translatedContent = Str(<<>>)
    /\ previewTranslated = FALSE
    /\ isLoading = FALSE
    /\ apiKeys = NoKeys
    /\ showSettings = FALSE
    /\ localStorage = Undefined
    /\ conversions = 0
    /\ urlFetches = 0
    /\ translatedFrom = None
    /\ keysAtOpen = NoKeys

Init ==
    /\ pc = "idle"
    /\ origin = "none"
    /\ req = NoRequest
    /\ invoked = <<>>
    /\ netCalls = <<>>
    /\ primaryOutcome = None
    /\ secondaryOutcome = None
    /\ result = None
    /\ response = None
    /\ errorModal = NoModal
    /\ returned = None
    /\ fetchError = None
    /\ PageInit

Next ==
    \/ performTranslation
    \/ PageFetch
    \/ PageFetchFails
    \/ PageReceives
    \/ DirectRequest
    \/ DirectReceives
    \/ POST
    \/ OpenAIResponds
    \/ GoogleResponds

Spec == Init /\ [][Next]_vars

--------------------------------------------------------------------------
(* translateHtmlContent on its own: called with any arguments of its type *)

OrchestratorArguments ==
    { [content |-> Str(c), direction |-> d, apiKeys |-> k] :
        c \in Contents \cup {<<>>}, d \in Directions, k \in ApiKeysValues \ {Undefined} }

InitOrchestrator ==
    /\ pc = "call"
    /\ origin = "orchestrator"
    /\ req \in OrchestratorArguments
    /\ invoked = <<>>
    /\ netCalls = <<>>
    /\ primaryOutcome = None
    /\ secondaryOutcome = None
    /\ result = None
    /\ response = None
    /\ errorModal = NoModal
    /\ returned = None
    /\ fetchError = None
    /\ PageInit

CallTranslateHtmlContent ==
    /\ pc = "call"
    /\ translateHtmlContent
    /\ UNCHANGED <<origin, req, primaryOutcome, secondaryOutcome, errorModal, returned,
                   fetchError, pageVars>>

NextOrchestrator ==
    \/ CallTranslateHtmlContent
    \/ OpenAIResponds
    \/ GoogleResponds

SpecOrchestrator == InitOrchestrator /\ [][NextOrchestrator]_vars

--------------------------------------------------------------------------
(* translateHtmlContent called with no credential, on every content up to
   MaxContentLen characters *)

MaxContentLen == 5
Alphabet == {"[", "]", "E", "N", "J", "P", " "}
AllContents == UNION { [1..n -> Alphabet] : n \in 0..MaxContentLen }

NoCredentials ==
    { [type |-> "object", openai |-> Str(<<>>), googleTranslate |-> Str(<<>>)],
      [type |-> "object", openai |-> Undefined, googleTranslate |-> Undefined] }

InitIdentity ==
    /\ pc = "call"
    /\ origin = "orchestrator"
    /\ req \in { [content |-> Str(c), direction |-> d, apiKeys |-> k] :
                   c \in AllContents, d \in Directions, k \in NoCredentials }
    /\ invoked = <<>>
    /\ netCalls = <<>>
    /\ primaryOutcome = None
    /\ secondaryOutcome = None
    /\ result = None
    /\ response = None
    /\ errorModal = NoModal
    /\ returned = None
    /\ fetchError = None
    /\ PageInit

SpecIdentity == InitIdentity /\ [][CallTranslateHtmlContent]_vars

--------------------------------------------------------------------------
(* performTranslation after its fetch, on every failure it can be handed: a response
   of any status that is not ok, with or without a JSON body and its fields, or a
   rejected fetch with any message *)

FailureStatuses == 300..599
ResponseDetails == { Undefined, Str(<<"quota exceeded">>) }
ResponseMessages == { Undefined, Str(<<"try again">>) }

FailedResponses ==
    { [status |-> s, json |-> TRUE, error |-> e, message |-> m,
       type |-> Undefined, translatedContent |-> Undefined] :
        s \in FailureStatuses, e \in ResponseDetails, m \in ResponseMessages }
    \cup { [status |-> s, json |-> FALSE, error |-> Undefined, message |-> Undefined,
            type |-> Undefined, translatedContent |-> Undefined] :
             s \in FailureStatuses }

PageRequest ==
    [content |-> Str(<<"E">>), direction |-> "ja-to-en",
     apiKeys |-> [type |-> "object", openai |-> Str(<<"sk">>),
                  googleTranslate |-> Str(<<>>)]]

InitClassify ==
    /\ origin = "page"
    /\ req = PageRequest
    /\ invoked = <<>>
    /\ primaryOutcome = None
    /\ secondaryOutcome = None
    /\ result = None
    /\ errorModal = NoModal
    /\ returned = None
    /\ fetchError = None
    /\ PageInit
    /\ \/ pc = "sending" /\ response = None /\ netCalls = <<>>
       \/ pc = "responded" /\ response \in FailedResponses
            /\ netCalls = <<"/api/translate">>

NextClassify ==
    \/ PageFetchFails
    \/ PageReceives

SpecClassify == InitClassify /\ [][NextClassify]_vars

--------------------------------------------------------------------------
(* The page component: its handlers, with /api/translate seen from outside *)

\* what fallbackTranslation can settle with for the request r
FallbackResults(r) ==
    IF Falsy(r.apiKeys.googleTranslate)
    THEN { IdentityResult(r.content.chars, r.direction) }
    ELSE { LET t == GoogleTry(o)
           IN IF t.kind = "return" \/ GoogleRethrown(t.message)
              THEN t
              ELSE IdentityResult(r.content.chars, r.direction) :
           o \in Outcomes(GoogleBodies) }

\* what translateHtmlContent can settle with for the request r
OrchestratorResults(r) ==
    IF Falsy(r.apiKeys.openai)
    THEN FallbackResults(r)
    ELSE UNION { LET t == OpenAITry(o)
                 IN IF t.kind = "return" \/ OpenAIRethrown(t.message)
                    THEN {t}
                    ELSE FallbackResults(r) :
                 o \in Outcomes(OpenAIBodies) }

\* the answers of POST to a request of the page (which has passed the validation)
TranslateResponses(r) == { ResponseOf(t) : t \in OrchestratorResults(r) }

\* /api/translate answers the page
TranslateAnswers ==
    /\ pc = "inflight"
    /\ origin = "page"
    /\ \E rsp \in TranslateResponses(req) : response' = rsp
    /\ pc' = "responded"
    /\ UNCHANGED <<origin, req, invoked, netCalls, primaryOutcome, secondaryOutcome,
                   result, errorModal, returned, fetchError, pageVars>>

\* the saved item: absent, the JSON of keys saved earlier, or text that is not JSON
NotJson == [type |-> "notjson"]
StoredValues == {Undefined, NotJson} \cup PageApiKeys

\* the effect run once after the first render
LoadSavedKeys ==
    /\ ~mounted
    /\ mounted' = TRUE
    /\ IF localStorage = Undefined
       THEN UNCHANGED <<apiKeys, localStorage>>
       ELSE IF localStorage = NotJson
       THEN apiKeys' = apiKeys /\ localStorage' = Undefined
       ELSE apiKeys' = localStorage /\ localStorage' = localStorage
    /\ UNCHANGED <<pc, origin, req, invoked, netCalls, primaryOutcome, secondaryOutcome,
                   result, response, errorModal, returned, fetchError, htmlContent,
                   translatedContent, previewTranslated, isLoading, showSettings,
                   conversions, urlFetches, translatedFrom, keysAtOpen>>

\* the pipeline and the part of the page about content
contentVars == <<pc, origin, req, invoked, netCalls, primaryOutcome, secondaryOutcome,
                 result, response, errorModal, returned, fetchError, mounted,
                 htmlContent, translatedContent, previewTranslated, isLoading,
                 conversions, urlFetches, translatedFrom>>

\* the settings button
OpenSettings ==
    /\ mounted
    /\ ~showSettings
    /\ showSettings' = TRUE
    /\ keysAtOpen' = apiKeys
    /\ UNCHANGED <<contentVars, apiKeys, localStorage>>

\* the onChange of the two inputs of the settings dialog
TypeOpenAIKey ==
    /\ showSettings
    /\ \E value \in OpenAIKeys \cup {Str(<<>>)} :
         apiKeys' = [apiKeys EXCEPT !.openai = value]
    /\ UNCHANGED <<contentVars, showSettings, localStorage, keysAtOpen>>

TypeGoogleKey ==
    /\ showSettings
    /\ \E value \in GoogleKeys \cup {Str(<<>>)} :
         apiKeys' = [apiKeys EXCEPT !.googleTranslate = value]
    /\ UNCHANGED <<contentVars, showSettings, localStorage, keysAtOpen>>

\* the Cancel button
CancelSettings ==
    /\ showSettings
    /\ showSettings' = FALSE
    /\ UNCHANGED <<contentVars, apiKeys, localStorage, keysAtOpen>>

\* the Save button: saveApiKeys(apiKeys)
saveApiKeys ==
    /\ showSettings
    /\ apiKeys' = apiKeys
    /\ localStorage' = apiKeys
    /\ showSettings' = FALSE
    /\ UNCHANGED <<contentVars, keysAtOpen>>

settingsVars == <<apiKeys, showSettings, localStorage, keysAtOpen>>

pipelineVars == <<pc, origin, req, invoked, netCalls, primaryOutcome, secondaryOutcome,
                  result, response, errorModal, returned, fetchError>>

\* the close button of the error modal
closeErrorModal ==
    /\ errorModal.show
    /\ errorModal' = NoModal
    /\ UNCHANGED <<pc, origin, req, invoked, netCalls, primaryOutcome, secondaryOutcome,
                   result, response, returned, fetchError, pageVars>>

\* the HTML documents convertMarkdownToHtml produces
Documents == Contents
\* how a pending conversion or download settles
Conversions ==
    { [ok |-> TRUE, html |-> d] : d \in Documents } \cup { [ok |-> FALSE, html |-> <<>>] }

\* the number of uploads, and of URL fetches, that may be pending at once
MaxPending == 1

\* reader.onload of handleFileUpload, up to its await
handleFileUpload ==
    /\ mounted
    /\ conversions < MaxPending
    /\ conversions' = conversions + 1
    /\ isLoading' = TRUE
    /\ UNCHANGED <<pipelineVars, settingsVars, mounted, htmlContent, translatedContent,
                   previewTranslated, urlFetches, translatedFrom>>

\* handleFileUpload after its await: try, catch and finally
handleFileUploadResumes ==
    /\ conversions > 0
    /\ conversions' = conversions - 1
    /\ \E c \in Conversions : htmlContent' = IF c.ok THEN c.html ELSE htmlContent
    /\ isLoading' = FALSE
    /\ UNCHANGED <<pipelineVars, settingsVars, mounted, translatedContent,
                   previewTranslated, urlFetches, translatedFrom>>

\* handleUrlFetch with a URL typed in, up to its first await; the button is disabled
\* while isLoading
handleUrlFetch ==
    /\ mounted
    /\ ~isLoading
    /\ urlFetches < MaxPending
    /\ urlFetches' = urlFetches + 1
    /\ isLoading' = TRUE
    /\ UNCHANGED <<pipelineVars, settingsVars, mounted, htmlContent, translatedContent,
                   previewTranslated, conversions, translatedFrom>>

\* handleUrlFetch after its awaits (the download, then the conversion)
handleUrlFetchResumes ==
    /\ urlFetches > 0
    /\ urlFetches' = urlFetches - 1
    /\ \E c \in Conversions : htmlContent' = IF c.ok THEN c.html ELSE htmlContent
    /\ isLoading' = FALSE
    /\ UNCHANGED <<pipelineVars, settingsVars, mounted, translatedContent,
                   previewTranslated, conversions, translatedFrom>>

\* the onChange of the textarea of the HTML editor
EditHtml ==
    /\ mounted
    /\ \E value \in PageContents \cup {<<>>} : htmlContent' = value
    /\ UNCHANGED <<pipelineVars, settingsVars, mounted, translatedContent,
                   previewTranslated, isLoading, conversions, urlFetches,
                   translatedFrom>>

\* the onChange of the translation switch, up to its await; the switch is disabled
\* while htmlContent is empty or isLoading, and shows previewTranslated
ToggleTranslation ==
    /\ mounted
    /\ pc = "idle"
    /\ htmlContent # <<>>
    /\ ~isLoading
    /\ IF ~previewTranslated /\ Falsy(translatedContent)
       THEN /\ performTranslationWith(htmlContent, apiKeys)
            /\ isLoading' = (pc' = "sending")
            /\ UNCHANGED previewTranslated
       ELSE /\ previewTranslated' = ~previewTranslated
            /\ UNCHANGED <<pipelineVars, isLoading>>
    /\ UNCHANGED <<settingsVars, mounted, htmlContent, translatedContent, conversions,
                   urlFetches, translatedFrom>>

\* the switch's handler when performTranslation returns null from its catch
ToggleFetchFails ==
    /\ \E error \in FetchErrorMessages : performTranslationCatches(error)
    /\ isLoading' = FALSE
    /\ UNCHANGED <<fetchError, settingsVars, mounted, htmlContent, translatedContent,
                   previewTranslated, conversions, urlFetches, translatedFrom>>

\* the switch's handler when performTranslation returns after the answer
ToggleResumes ==
    /\ performTranslationResumes
    /\ IF ~Falsy(returned')
       THEN /\ translatedContent' = returned'
            /\ translatedFrom' = req.content
            /\ previewTranslated' = TRUE
       ELSE UNCHANGED <<translatedContent, translatedFrom, previewTranslated>>
    /\ isLoading' = FALSE
    /\ UNCHANGED <<settingsVars, mounted, htmlContent, conversions, urlFetches>>

\* the page with the saved keys loaded and a document converted: the settings dialog
\* and translation
InitSettings ==
    /\ pc = "idle"
    /\ origin = "page"
    /\ req = NoRequest
    /\ invoked = <<>>
    /\ netCalls = <<>>
    /\ primaryOutcome = None
    /\ secondaryOutcome = None
    /\ result = None
    /\ response = None
    /\ errorModal = NoModal
    /\ returned = None
    /\ fetchError = None
    /\ mounted = TRUE
    /\ htmlContent \in Documents
    /\ translatedContent = Str(<<>>)
    /\ previewTranslated = FALSE
    /\ isLoading = FALSE
    /\ localStorage \in {Undefined} \cup PageApiKeys
    /\ apiKeys = (IF localStorage = Undefined THEN NoKeys ELSE localStorage)
    /\ showSettings = FALSE
    /\ conversions = 0
    /\ urlFetches = 0
    /\ translatedFrom = None
    /\ keysAtOpen = NoKeys

NextSettings ==
    \/ OpenSettings
    \/ TypeOpenAIKey
    \/ TypeGoogleKey
    \/ CancelSettings
    \/ saveApiKeys
    \/ ToggleTranslation
    \/ PageFetch
    \/ ToggleFetchFails
    \/ TranslateAnswers
    \/ ToggleResumes
    \/ closeErrorModal

SpecSettings == InitSettings /\ [][NextSettings]_vars

\* the page from its construction, in a browser that may hold saved keys: content
\* and preview
InitPreview ==
    /\ pc = "idle"
    /\ origin = "page"
    /\ req = NoRequest
    /\ invoked = <<>>
    /\ netCalls = <<>>
    /\ primaryOutcome = None
    /\ secondaryOutcome = None
    /\ result = None
    /\ response = None
    /\ errorModal = NoModal
    /\ returned = None
    /\ fetchError = None
    /\ mounted = FALSE
    /\ htmlContent = <<>>
    /\ translatedContent = Str(<<>>)
    /\ previewTranslated = FALSE
    /\ isLoading = FALSE
    /\ apiKeys = NoKeys
    /\ showSettings = FALSE
    /\ localStorage \in StoredValues
    /\ conversions = 0
    /\ urlFetches = 0
    /\ translatedFrom = None
    /\ keysAtOpen = NoKeys

NextPreview ==
    \/ LoadSavedKeys
    \/ handleFileUpload
    \/ handleFileUploadResumes
    \/ handleUrlFetch
    \/ handleUrlFetchResumes
    \/ EditHtml
    \/ ToggleTranslation
    \/ PageFetch
    \/ ToggleFetchFails
    \/ TranslateAnswers
    \/ ToggleResumes
    \/ closeErrorModal

SpecPreview == InitPreview /\ [][NextPreview]_vars

--------------------------------------------------------------------------
(* The vocabulary of the specification *)

Range(seq) == { seq[i] : i \in 1..Len(seq) }

\* the kind of a classified error, from the title the page gives it
Kind(title) ==
    CASE title = <<"Request error (400)">> -> "UpstreamRequest"
      [] title = <<"Authentication error (401)">> -> "UpstreamAuth"
      [] title = <<"Access denied (403)">> -> "UpstreamForbidden"
      [] title = <<"Rate limit error (429)">> -> "UpstreamRateLimit"
      [] title = <<"Server error (500)">> -> "UpstreamServer"
      [] title = <<"Gateway error (502)">> -> "UpstreamGateway"
      [] title = <<"Service unavailable (503)">> -> "UpstreamUnavailable"
      [] title \in {<<"Timeout error (504)">>, <<"Timeout error">>} -> "UpstreamTimeout"
      [] title = <<"Network error">> -> "Network"
      [] OTHER -> "Unknown"

\* the request has a usable answer of the tier
PrimarySucceeded ==
    /\ primaryOutcome.kind = "ok"
    /\ primaryOutcome.body.shape = "choice"
    /\ ~Falsy(primaryOutcome.body.content)
SecondarySucceeded ==
    /\ secondaryOutcome.kind = "ok"
    /\ secondaryOutcome.body.shape = "translation"

\* every credential field of the request is empty, or the credential set is absent
NoCredential(keys) ==
    \/ keys.type # "object"
    \/ (keys.openai.type = "string" => keys.openai.chars = <<>>)
       /\ (keys.googleTranslate.type = "string" => keys.googleTranslate.chars = <<>>)

\* the request is over for its caller
Over == pc \in {"idle", "done"} /\ origin # "none"

--------------------------------------------------------------------------
(* Claims *)

\* C1: when the Primary credential is present and OpenAI answers 429, the page
\* classifies the failure as UpstreamRateLimit and the Secondary tier is not invoked.
C1_RateLimitSurfaced ==
    (/\ origin = "page"
     /\ pc = "idle"
     /\ primaryOutcome.kind = "http"
     /\ primaryOutcome.status = 429)
    => /\ errorModal.show
       /\ Kind(errorModal.title) = "UpstreamRateLimit"
       /\ "Secondary" \notin Range(invoked)

\* C2: when the Primary credential is present and OpenAI answers with a usable
\* payload, the content returned is that payload and neither the Secondary nor the
\* Identity tier is invoked.
C2_PrimarySuccessReturned ==
    PrimarySucceeded
    => /\ result = Return(primaryOutcome.body.content)
       /\ response = JsonResponse(200, Undefined, Undefined, primaryOutcome.body.content)
       /\ invoked = <<"Primary">>
       /\ (origin = "page" /\ pc = "idle" => returned = primaryOutcome.body.content)

C2_Witness ==
    /\ PrimarySucceeded
    /\ ~Falsy(req.apiKeys.openai)
    /\ origin = "page"
    /\ pc = "idle"
    /\ returned = Str(<<"T">>)

\* C3: a request whose content is empty or absent ends in the InvalidRequest error,
\* whatever its credentials, with no tier invoked and no outbound call made.
C3_EmptyContentRejected ==
    /\ (origin = "direct" /\ pc # "inflight" /\ req # UnparsableRequest
            /\ Falsy(req.content))
       => /\ response = ContentRequiredResponse
          /\ result = None
          /\ invoked = <<>>
          /\ netCalls = <<>>
    /\ (origin = "page" /\ Trim(req.content.chars) = <<>>)
       => /\ pc = "idle"
          /\ errorModal = NoContentModal
          /\ response = None
          /\ invoked = <<>>
          /\ netCalls = <<>>

C3_Witness ==
    /\ origin = "direct"
    /\ pc = "idle"
    /\ req # UnparsableRequest
    /\ req.content = Str(<<>>)
    /\ ~NoCredential(req.apiKeys)
    /\ response.status = 400

\* C4: a request with content whose credential fields are all empty, or whose
\* credential set is absent, ends in the MissingCredential error, with no tier
\* invoked and no outbound call made.
C4_MissingCredentialRejected ==
    /\ (origin = "direct" /\ pc # "inflight" /\ req # UnparsableRequest
            /\ ~Falsy(req.content) /\ NoCredential(req.apiKeys))
       => /\ response.error = ApiKeyRequiredResponse.error
          /\ response.status \in 400..499
          /\ response.translatedContent = Undefined
          /\ result = None
          /\ invoked = <<>>
          /\ netCalls = <<>>
    /\ (origin = "page" /\ Trim(req.content.chars) # <<>> /\ NoCredential(req.apiKeys))
       => /\ pc = "idle"
          /\ errorModal = ApiKeyUnsetModal
          /\ response = None
          /\ invoked = <<>>
          /\ netCalls = <<>>

C4_Witness ==
    /\ origin = "direct"
    /\ pc = "idle"
    /\ req # UnparsableRequest
    /\ ~Falsy(req.content)
    /\ req.apiKeys.type = "object"
    /\ NoCredential(req.apiKeys)
    /\ response.error = ApiKeyRequiredResponse.error

\* C5: a non-2xx answer of a credentialed tier ends the request with an error and
\* no lower tier is invoked: after OpenAI's, neither Secondary nor Identity; after
\* Google's, however that tier was reached, not Identity.
C5_HttpErrorNeverFallsBack ==
    /\ primaryOutcome.kind = "http"
       => /\ result.kind = "throw"
          /\ response.status = 500
          /\ invoked = <<"Primary">>
    /\ secondaryOutcome.kind = "http"
       => /\ result.kind = "throw"
          /\ response.status = 500
          /\ "Identity" \notin Range(invoked)

C5_Witness ==
    /\ primaryOutcome.kind = "threw"
    /\ secondaryOutcome.kind = "http"
    /\ invoked = <<"Primary", "Secondary">>
    /\ origin = "page"
    /\ pc = "idle"
    /\ returned = Null

\* C6: when the Primary credential is present and OpenAI answers 2xx without a
\* usable translated text, the failure is propagated as an error and no lower tier
\* answers the request.
C6_NoPayloadPropagated ==
    (/\ primaryOutcome.kind = "ok"
     /\ primaryOutcome.body.shape \in {"emptychoices", "choice"}
     /\ Falsy(primaryOutcome.body.content))
    => /\ result.kind = "throw"
       /\ invoked = <<"Primary">>

\* C7: an unexpected exception in a credentialed tier falls through to the next
\* tier: after one in Primary, Secondary is invoked when its credential is present
\* and Identity otherwise; after one in Secondary, Identity is invoked.
C7_ExceptionFallsThrough ==
    /\ primaryOutcome.kind = "threw"
       => IF Falsy(req.apiKeys.googleTranslate)
          THEN invoked = <<"Primary", "Identity">> /\ result.kind = "return"
          ELSE SubSeq(invoked, 1, 2) = <<"Primary", "Secondary">>
    /\ secondaryOutcome.kind = "threw"
       => /\ invoked[Len(invoked)] = "Identity"
          /\ Len(invoked) >= 2
          /\ invoked[Len(invoked) - 1] = "Secondary"
          /\ result.kind = "return"

C7_Witness ==
    /\ primaryOutcome.kind = "threw"
    /\ secondaryOutcome.kind = "threw"
    /\ invoked = <<"Primary", "Secondary", "Identity">>
    /\ response.status = 200

\* C8: when only the Secondary credential is present and Google answers with a
\* translation, the content returned is its translated text and the Primary tier
\* is not invoked.
C8_SecondarySuccessReturned ==
    (SecondarySucceeded /\ Falsy(req.apiKeys.openai))
    => /\ result = Return(secondaryOutcome.body.translatedText)
       /\ response = JsonResponse(200, Undefined, Undefined,
                                   secondaryOutcome.body.translatedText)
       /\ invoked = <<"Secondary">>
       /\ "api.openai.com" \notin Range(netCalls)
       /\ (origin = "page" /\ pc = "idle"
             => returned = secondaryOutcome.body.translatedText)

C8_Witness ==
    /\ SecondarySucceeded
    /\ Falsy(req.apiKeys.openai)
    /\ origin = "page"
    /\ pc = "idle"
    /\ returned = Str(<<"U">>)

\* the content with its leading markers stripped, each with the whitespace after it
RECURSIVE StripLeading(_)
StripLeading(s) ==
    IF MatchesAt(s, 1, MarkerEN) \/ MatchesAt(s, 1, MarkerJP)
    THEN StripLeading(SubSeq(s, SkipWhitespace(s, 5), Len(s)))
    ELSE s

Dropped(s, marker) ==
    { i \in 1..Len(s) :
        \E p \in 1..i :
            /\ MatchesAt(s, p, marker)
            /\ \/ i < p + Len(marker)
               \/ \A j \in (p + Len(marker))..i : s[j] \in Whitespace }

\* s without the positions in drop, the rest in order
Without(s, drop) ==
    LET kept == (1..Len(s)) \ drop
    IN [k \in 1..Cardinality(kept) |->
          s[CHOOSE i \in kept : Cardinality({j \in kept : j <= i}) = k]]

Deleted(s, marker) == Without(s, Dropped(s, marker))

C10_IdentityNeverFails ==
    "Identity" \in Range(invoked)
    => /\ pc = "done"
       /\ result.kind = "return"
       /\ result.value.type = "string"
       /\ invoked[Len(invoked)] = "Identity"

C10_Witness ==
    /\ invoked = <<"Primary", "Secondary", "Identity">>
    /\ primaryOutcome.kind = "threw"
    /\ secondaryOutcome.kind = "threw"
    /\ result.kind = "return"


\* the request was refused for its content; for its credentials; it failed otherwise
InvalidRequest == req # UnparsableRequest /\ Falsy(req.content)
MissingCredential ==
    req # UnparsableRequest /\ ~Falsy(req.content) /\ NoCredential(req.apiKeys)
UnclassifiedFailure == req = UnparsableRequest \/ result.kind = "throw"

\* C11 as stated: InvalidRequest and MissingCredential are answered with status 400,
\* every upstream-propagated or unclassified failure, an unparsable body included,
\* with status 500.
C11_StatusMapping ==
    (origin \in {"page", "direct"} /\ response # None)
    => /\ InvalidRequest => response.status = 400
       /\ MissingCredential => response.status = 400
       /\ UnclassifiedFailure => response.status = 500

\* C11 amended: InvalidRequest is answered with status 400, MissingCredential with
\* status 401, every upstream-propagated or unclassified failure, an unparsable body
\* included, with status 500.
C11_StatusMappingWith401 ==
    (origin \in {"page", "direct"} /\ response # None)
    => /\ InvalidRequest => response.status = 400
       /\ MissingCredential => response.status = 401
       /\ UnclassifiedFailure => response.status = 500 /\ ~Falsy(response.error)

C11_Witness ==
    /\ origin = "direct"
    /\ pc = "idle"
    /\ MissingCredential
    /\ response.status = 401


\* the table of the classifier: the kind of each upstream status
TableKind(status) ==
    CASE status = 400 -> "UpstreamRequest"
      [] status = 401 -> "UpstreamAuth"
      [] status = 403 -> "UpstreamForbidden"
      [] status = 429 -> "UpstreamRateLimit"
      [] status = 500 -> "UpstreamServer"
      [] status = 502 -> "UpstreamGateway"
      [] status = 503 -> "UpstreamUnavailable"
      [] status = 504 -> "UpstreamTimeout"
      [] OTHER -> "Unknown"

\* the page has classified a failed response
ClassifiedResponse == pc = "idle" /\ origin = "page" /\ response # None /\ returned = Null

\* C12: a failed response is classified by its status as the table says, any other
\* status as Unknown with the raw status in the title and the detail; every
\* classified error has a title and a detail.
C12_StatusTable ==
    ClassifiedResponse
    => /\ errorModal.show
       /\ Kind(errorModal.title) = TableKind(response.status)
       /\ TableKind(response.status) = "Unknown"
            => /\ Includes(errorModal.title, ToString(response.status))
               /\ Includes(errorModal.message, ToString(response.status))
       /\ errorModal.title # <<>>
       /\ errorModal.message # <<>>

C12_Witness ==
    /\ ClassifiedResponse
    /\ response.status = 504
    /\ Kind(errorModal.title) = "UpstreamTimeout"


\* the tiers in the order of the chain
Rank(tier) == CASE tier = "Primary" -> 1 [] tier = "Secondary" -> 2 [] tier = "Identity" -> 3

\* the provider calls of the request that have been issued and have not settled
Outstanding ==
    { t \in {"Primary"} : t \in Range(invoked) /\ primaryOutcome = None }
    \cup { t \in {"Secondary"} : t \in Range(invoked) /\ secondaryOutcome = None }

\* C14: within one request each of Primary, Secondary and Identity is invoked at most
\* once and in this order, each provider gets at most one outbound call, a later
\* tier is invoked only after every earlier invoked tier has settled, Secondary is
\* never the first tier when the Primary credential is present, and at no time are
\* two provider calls outstanding.
C14_SequentialTiers ==
    /\ \A i, j \in 1..Len(invoked) : i < j => Rank(invoked[i]) < Rank(invoked[j])
    /\ \A i, j \in 1..Len(netCalls) : i < j => netCalls[i] # netCalls[j]
    /\ "Secondary" \in Range(invoked) /\ "Primary" \in Range(invoked)
         => primaryOutcome # None
    /\ "Identity" \in Range(invoked)
         => /\ "Primary" \in Range(invoked) => primaryOutcome # None
            /\ "Secondary" \in Range(invoked) => secondaryOutcome # None
    /\ (invoked # <<>> /\ req # UnparsableRequest /\ ~Falsy(req.apiKeys)
          /\ ~Falsy(req.apiKeys.openai))
         => invoked[1] = "Primary"
    /\ Cardinality(Outstanding) <= 1
    /\ pc \in {"responded", "done", "idle"} => Outstanding = {}

C14_Witness ==
    /\ pc = "responded"
    /\ invoked = <<"Primary", "Secondary", "Identity">>
    /\ netCalls = <<"/api/translate", "api.openai.com", "translation.googleapis.com">>


\* the indicators a message is matched against
MatchesNetwork(message) == "fetch" \in Range(message) \/ "network" \in Range(message)
MatchesTimeout(message) == "timeout" \in Range(message)

\* C15 as stated: for a failure without a status code, every message with a network
\* indicator is classified Network, every message with a timeout indicator is
\* classified UpstreamTimeout, and every other message is classified Unknown with
\* the raw message passed through.
C15_MessageClassification ==
    fetchError # None
    => LET message == fetchError.chars
       IN /\ MatchesNetwork(message) => Kind(errorModal.title) = "Network"
          /\ MatchesTimeout(message) => Kind(errorModal.title) = "UpstreamTimeout"
          /\ ~MatchesNetwork(message) /\ ~MatchesTimeout(message)
               => /\ Kind(errorModal.title) = "Unknown"
                  /\ errorModal.message = <<"Error details: ">> \o message

\* C15 amended: the network indicators are looked for first; a message with a timeout
\* indicator is classified UpstreamTimeout only when it has no network indicator.
C15_NetworkBeforeTimeout ==
    fetchError # None
    => LET message == fetchError.chars
       IN /\ errorModal.show
          /\ MatchesNetwork(message) => Kind(errorModal.title) = "Network"
          /\ MatchesTimeout(message) /\ ~MatchesNetwork(message)
               => Kind(errorModal.title) = "UpstreamTimeout"
          /\ ~MatchesNetwork(message) /\ ~MatchesTimeout(message)
               => /\ Kind(errorModal.title) = "Unknown"
                  /\ errorModal.message = <<"Error details: ">> \o message

C15_Witness ==
    /\ fetchError = Str(<<"network", "timeout">>)
    /\ Kind(errorModal.title) = "Network"
    /\ response = None
    /\ returned = Null


\* the error body of a provider gives no message: not JSON, or without error.message
NoUpstreamMessage(outcome) ==
    outcome.kind = "http" /\ (~outcome.body.json \/ Falsy(outcome.body.message))

GenericMessage(api, status) == <<api, " (", ToString(status), ")">>

\* the answer of POST to a failure with this message
PropagatedAs(message) ==
    /\ result = Throw(message)
    /\ origin # "orchestrator"
         => /\ response.status = 500
            /\ response.error = Str(message)

\* C17: when a provider answers non-2xx with a body that is not JSON or has no error
\* message, the request still fails with that provider's error for that status code,
\* carrying the generic message of the status, and no lower tier is invoked; and a
\* failed answer to the page whose body is not JSON still gets its modal, with the
\* guidance of its status alone.
C17_MalformedErrorBody ==
    /\ NoUpstreamMessage(primaryOutcome)
         => /\ PropagatedAs(GenericMessage("OpenAI API error", primaryOutcome.status))
            /\ invoked = <<"Primary">>
    /\ NoUpstreamMessage(secondaryOutcome)
         => /\ PropagatedAs(GenericMessage("Google Translate API error",
                                           secondaryOutcome.status))
            /\ "Identity" \notin Range(invoked)
    /\ (origin = "page" /\ pc = "idle" /\ response # None /\ ~response.json)
         => /\ errorModal.show
            /\ errorModal.message = StatusGuidance(response.status)

C17_Witness ==
    /\ primaryOutcome.kind = "http"
    /\ ~primaryOutcome.body.json
    /\ primaryOutcome.status = 429
    /\ pc = "responded"
    /\ response.error = Str(<<"OpenAI API error", " (", "429", ")">>)


\* the message a provider supplied in the body of its non-2xx answer, <<>> if none
SuppliedBy(outcome) ==
    IF outcome.kind = "http" /\ outcome.body.json /\ ~Falsy(outcome.body.message)
    THEN outcome.body.message.chars
    ELSE <<>>

UpstreamMessage ==
    IF SuppliedBy(primaryOutcome) # <<>> THEN SuppliedBy(primaryOutcome)
    ELSE SuppliedBy(secondaryOutcome)

\* text starts with the guidance, goes on with the details separator and ends with tail
GuidanceThenDetails(text, guidance, tail) ==
    /\ Len(text) >= Len(guidance) + 1 + Len(tail)
    /\ SubSeq(text, 1, Len(guidance)) = guidance
    /\ text[Len(guidance) + 1] = "\n\nDetails: "
    /\ SubSeq(text, Len(text) - Len(tail) + 1, Len(text)) = tail

\* the page has classified a failed answer of /api/translate
ClassifiedFailure ==
    /\ origin = "page"
    /\ pc = "idle"
    /\ response # None
    /\ returned = Null

\* C16: whenever the page has classified a failed answer and a provider supplied a
\* message in its error body, the modal's text is the guidance of the answer's status
\* followed by the details, which end with the provider's message, character for
\* character; and whenever the answer itself carries an error text, the modal's text
\* is the guidance followed by exactly that text. The guidance is never replaced and
\* the message is never left out.
C16_UpstreamMessageAppended ==
    ClassifiedFailure
    => /\ UpstreamMessage # <<>>
            => GuidanceThenDetails(errorModal.message, StatusGuidance(response.status),
                                   UpstreamMessage)
       /\ (response.json /\ ~Falsy(response.error))
            => errorModal.message
                 = StatusGuidance(response.status) \o <<"\n\nDetails: ">>
                     \o response.error.chars

C16_Witness ==
    /\ ClassifiedFailure
    /\ UpstreamMessage = <<"quota exceeded">>
    /\ errorModal.message
         = StatusGuidance(500)
             \o <<"\n\nDetails: ", "OpenAI API error", " (", "429", ")", ": ",
                  "quota exceeded">>


\* every answer POST gives the page in Spec is one TranslateAnswers can give
TranslateResponsesCoverPOST ==
    (origin = "page" /\ response # None) => response \in TranslateResponses(req)

\* C13: no request the page has sent to /api/translate carries an API key: the keys
\* entered in the settings dialog stay in the browser.
C13_KeysStayInBrowser ==
    (origin = "page" /\ "/api/translate" \in Range(netCalls))
    => NoCredential(req.apiKeys)

\* the preview renders translatedContent, not htmlContent
TranslationDisplayed ==
    /\ htmlContent # <<>>
    /\ previewTranslated
    /\ ~Falsy(translatedContent)

\* C18: whenever the preview shows the translation (there is content, previewTranslated
\* is true and translatedContent is not empty), translatedContent was produced from
\* the htmlContent the page holds now.
C18_PreviewOfCurrentContent ==
    TranslationDisplayed => translatedFrom = Str(htmlContent)

\* the keys last saved to localStorage, the initial empty keys if none were saved
SavedKeys == IF localStorage = Undefined THEN NoKeys ELSE localStorage

\* C19: whenever the settings dialog is closed, apiKeys are the keys last saved; and
\* pressing Cancel leaves apiKeys as they were when the dialog was opened.
C19_CancelLeavesKeys ==
    /\ [](~showSettings => apiKeys = SavedKeys)
    /\ [][CancelSettings => apiKeys' = keysAtOpen]_vars

====
